---- MODULE Spec2Model ----
(***************************************************************************)
(* ZenWatch: the clone / analyze / cleanup pipeline of internal/git, the   *)
(* Markdown renderer of internal/report and the command line of            *)
(* cmd/zenwatch.                                                           *)
(*                                                                         *)
(* Strings whose characters matter (paths, report fields, command-line     *)
(* arguments) are sequences of one-character strings.  A filesystem is the *)
(* set of the paths that exist; a path is a sequence of names, <<>> being  *)
(* the empty path "".  An error is the chain of its messages, outermost    *)
(* first; <<>> is the nil error.                                           *)
(***************************************************************************)
EXTENDS Integers, Sequences, FiniteSets, TLC

VARIABLES
    test,        \* the test function (the analysis run) being executed
    pc,          \* position of the run
    fs,          \* the local filesystem: the set of existing paths
    tempDir,     \* CloneRepository: tempDir
    path,        \* CloneRepository: returned path
    cloneErr,    \* CloneRepository: returned error
    deferred,    \* the paths of the pending `defer Cleanup(path)` calls
    repoInfo,    \* AnalyzeLatestCommit: returned *RepositoryInfo
    err,         \* AnalyzeLatestCommit: returned error
    steps,       \* the library calls AnalyzeLatestCommit has made, in order
    loc,         \* AnalyzeLatestCommit: its local variables
    failed,      \* testing.T: the test has been marked failed
    lastCleanup  \* the arguments of the latest Cleanup calls made with nothing created in between (at most two)

VARIABLES
    data,        \* GenerateMarkdownReport: the ReportData argument
    outFile,     \* the lines of the file at outputPath, or NoOutput
    genErr,      \* GenerateMarkdownReport: returned error
    badgeArgs,   \* GenerateBadgeURL: <<totalChangedLines, avgComplexity in quarters>>
    badgeURL,    \* GenerateBadgeURL: returned string
    osArgs,      \* cmd/zenwatch: os.Args[1:]
    outFilePath, \* cmd/zenwatch: *outFilePath
    repoURL,     \* cmd/zenwatch: repoURL
    exitCode,    \* cmd/zenwatch: the exit status, -1 while running
    stdout       \* the lines printed to standard output

gitVars == <<test, pc, fs, tempDir, path, cloneErr, deferred, repoInfo, err, steps, loc, failed, lastCleanup>>

gitVars_noPc == <<test, fs, tempDir, path, cloneErr, deferred, repoInfo, err, steps, loc, failed, lastCleanup>>

reportVars == <<data, outFile, genErr, badgeArgs, badgeURL>>

cliVars == <<osArgs, outFilePath, repoURL, exitCode>>

otherVars == <<reportVars, cliVars, stdout>>

vars == <<gitVars, reportVars, cliVars, stdout>>

----------------------------------------------------------------------------
(* Bounds *)

MaxDirs == 2        \* temporary directory names os.MkdirTemp can pick
MaxFileStats == 2   \* length of the object.FileStats a commit returns
MaxLines == 1       \* additions / deletions of one file stat
MaxStats == 2       \* length of OverallStats.ComplexityStats
MaxCount == 2       \* OverallStats.FunctionsOverThreshold
MaxArgs == 3        \* command-line arguments after the subcommand
MaxChanged == 11    \* totalChangedLines given to GenerateBadgeURL
MaxQuarters == 7    \* avgComplexity given to GenerateBadgeURL, in quarters
MaxPatch == 2       \* file patches of a patch handed to the collecting loop

----------------------------------------------------------------------------
(* Errors and nil *)

NilErr == <<>>

\* fmt.Errorf("msg: %w", cause)
Errorf(msg, cause) == <<msg>> \o cause

\* errors.New / a library failure
LibErr(msg) == <<msg>>

NilInfo == [nil |-> TRUE]

IsPrefix(p, q) == Len(p) <= Len(q) /\ SubSeq(q, 1, Len(p)) = p

----------------------------------------------------------------------------
(* Filesystem *)

DirNames == 1..MaxDirs

\* the entries git.PlainClone writes below the clone directory
CloneEntries == {".git", "LICENSE"}

AllPaths == {<<d>> : d \in DirNames} \cup {<<d, e>> : d \in DirNames, e \in CloneEntries \cup {"dummy.txt"}}

\* a filesystem in which every existing entry has an existing parent
WellFormedFS(f) == \A p \in f : Len(p) = 1 \/ SubSeq(p, 1, Len(p) - 1) \in f

\* os.Remove: removes a file or an empty directory only (the mutant of RemoveAll)
RemoveOnly(f, p) ==
    IF \E q \in f : IsPrefix(p, q) /\ q # p THEN f ELSE f \ {p}

\* os.RemoveAll: removes path and any children it contains; a missing path,
\* and the empty path, are no error and no change
RemoveAll(f, p) ==
    IF p = <<>> THEN f ELSE {q \in f : ~IsPrefix(p, q)}

----------------------------------------------------------------------------
(* Strings *)

LowerChar(c) ==
    CASE c = "G" -> "g" [] c = "O" -> "o" [] c = "L" -> "l" [] c = "I" -> "i"
      [] c = "C" -> "c" [] c = "E" -> "e" [] c = "N" -> "n" [] c = "S" -> "s"
      [] OTHER -> c

\* strings.ToLower
ToLower(s) == [i \in 1..Len(s) |-> LowerChar(s[i])]

RECURSIVE ExtFrom(_, _)
ExtFrom(p, i) ==
    IF i < 1 \/ p[i] = "/" THEN <<>>
    ELSE IF p[i] = "." THEN SubSeq(p, i, Len(p))
    ELSE ExtFrom(p, i - 1)

\* filepath.Ext: the suffix beginning at the final dot of the final element
Ext(p) == ExtFrom(p, Len(p))

RECURSIVE FirstLineFrom(_, _)
FirstLineFrom(s, i) ==
    IF i > Len(s) \/ s[i] = "\n" THEN SubSeq(s, 1, i - 1) ELSE FirstLineFrom(s, i + 1)

\* strings.Split(s, "\n")[0]
FirstLine(s) == FirstLineFrom(s, 1)

\* time.Time.String() of the instant `when` seconds after the epoch, UTC
TimeString(when) == <<"1970-01-01 00:00:0", CASE when = 0 -> "0" [] OTHER -> "1", " +0000 UTC">>

----------------------------------------------------------------------------
(* The repository the version-control library reads *)

testRepoURL == "https://github.com/git-fixtures/basic.git"

LICENSE == <<"L", "I", "C", "E", "N", "S", "E">>
GITIGNORE == <<".", "g", "i", "t", "i", "g", "n", "o", "r", "e">>
EXAMPLE == <<"g", "o", "/", "e", ".", "G", "O">>

\* the files a tree can hold, in the order a tree walk visits them
PathOrder == <<GITIGNORE, LICENSE, EXAMPLE>>

Paths == {PathOrder[i] : i \in 1..Len(PathOrder)}

\* a tree maps each path to the hash of its blob, 0 when the path is absent
Hashes == {1, 2}

Trees == [Paths -> {0} \cup Hashes]

Commits ==
    [Hash : {<<"6", "e", "c", "f">>},
     Message : {<<"a", "d", "d", "\n", "\n", "b", "o", "d", "y">>, <<>>},
     Author : {<<"M", "a", "x">>},
     Email : {<<"m", "@", "x">>},
     When : {0},
     NumParents : {0, 1}]

FileStatValues == [Addition : 0..MaxLines, Deletion : 0..MaxLines]

RECURSIVE SeqsUpTo(_, _)
SeqsUpTo(S, n) ==
    IF n = 0 THEN {<<>>}
    ELSE LET shorter == SeqsUpTo(S, n - 1)
         IN  shorter \cup {Append(q, x) : q \in {r \in shorter : Len(r) = n - 1}, x \in S}

\* the values commit.Stats() can return
FileStatsSeqs == SeqsUpTo(FileStatValues, MaxFileStats)

NoFile == [nil |-> TRUE]
File(p) == [path |-> p]

\* the patch of object.DiffTree(nil, tree): one insertion per file of the tree
EmptyTreePatch(tree) ==
    LET F[i \in 0..Len(PathOrder)] ==
            IF i = 0 THEN <<>>
            ELSE IF tree[PathOrder[i]] # 0
                 THEN Append(F[i - 1], [from |-> NoFile, to |-> File(PathOrder[i])])
                 ELSE F[i - 1]
    IN  F[Len(PathOrder)]

\* the patch of parentTree.Patch(currentTree): a file patch per path that was
\* inserted, deleted or modified; a deletion and an insertion of the same blob
\* are paired into one rename (exact rename detection, go-git's default)
TreePatch(parent, cur) ==
    LET Deleted(p) == parent[p] # 0 /\ cur[p] = 0
        Inserted(p) == parent[p] = 0 /\ cur[p] # 0
        Modified(p) == parent[p] # 0 /\ cur[p] # 0 /\ parent[p] # cur[p]
        Idx(p) == CHOOSE i \in 1..Len(PathOrder) : PathOrder[i] = p
        \* R[i]: the rename pairs <<from, to>> among the first i paths as destinations
        R[i \in 0..Len(PathOrder)] ==
            IF i = 0 THEN {}
            ELSE LET a == PathOrder[i]
                     cand == {d \in Paths : Deleted(d) /\ parent[d] = cur[a]
                                             /\ ~\E r \in R[i - 1] : r[1] = d}
                 IN  IF Inserted(a) /\ cand # {}
                     THEN R[i - 1] \cup {<<CHOOSE d \in cand : \A e \in cand : Idx(d) <= Idx(e), a>>}
                     ELSE R[i - 1]
        Renames == R[Len(PathOrder)]
        F[i \in 0..Len(PathOrder)] ==
            IF i = 0 THEN <<>>
            ELSE LET p == PathOrder[i]
                 IN  IF \E r \in Renames : r[2] = p
                     THEN Append(F[i - 1], [from |-> File((CHOOSE r \in Renames : r[2] = p)[1]), to |-> File(p)])
                     ELSE IF \E r \in Renames : r[1] = p THEN F[i - 1]
                     ELSE IF Inserted(p) THEN Append(F[i - 1], [from |-> NoFile, to |-> File(p)])
                     ELSE IF Deleted(p) THEN Append(F[i - 1], [from |-> File(p), to |-> NoFile])
                     ELSE IF Modified(p) THEN Append(F[i - 1], [from |-> File(p), to |-> File(p)])
                     ELSE F[i - 1]
    IN  F[Len(PathOrder)]

----------------------------------------------------------------------------
(* internal/git: CloneRepository *)

NoLocals ==
    [commit |-> [nil |-> TRUE], statsOK |-> FALSE, commitStats |-> <<>>,
     totalAdded |-> 0, totalDeleted |-> 0, currentTree |-> [nil |-> TRUE],
     branch |-> "", patch |-> <<>>, errParent |-> <<>>, base |-> [nil |-> TRUE]]

\* the filesystem after git.PlainClone has written `written` below dir and
\* failed, without the removal of the directory (the mutant of CloneFailureFS)
CloneFailureLeaks(f, dir, written) == f \cup {dir \o <<e>> : e \in written}

\* the filesystem after git.PlainClone has written `written` below dir and
\* failed: os.RemoveAll(tempDir)
CloneFailureFS(f, dir, written) == RemoveAll(f \cup {dir \o <<e>> : e \in written}, dir)

\* os.MkdirTemp("", "zenwatch-clone-*") and its error return
CloneMkdirTemp ==
    /\ pc = "start"
    /\ \/ \E d \in DirNames :
             /\ <<d>> \notin fs
             /\ tempDir' = <<d>>
             /\ fs' = fs \cup {<<d>>}
             /\ pc' = "plainClone"
             /\ UNCHANGED <<path, cloneErr>>
       \/ /\ path' = <<>>
          /\ cloneErr' = Errorf("failed to create temp dir", LibErr("mkdir: no space left on device"))
          /\ pc' = "cloneReturned"
          /\ UNCHANGED <<tempDir, fs>>
    /\ UNCHANGED <<test, deferred, repoInfo, err, steps, loc, failed, lastCleanup>>
    /\ UNCHANGED otherVars

\* git.PlainClone(tempDir, ...) and both returns that follow it
ClonePlainClone ==
    /\ pc = "plainClone"
    /\ \/ /\ fs' = fs \cup {tempDir \o <<e>> : e \in CloneEntries}
          /\ path' = tempDir
          /\ cloneErr' = NilErr
       \/ \E written \in SUBSET CloneEntries, cause \in {"repository not found", "authentication required"} :
             /\ fs' = CloneFailureFS(fs, tempDir, written)
             /\ path' = <<>>
             /\ cloneErr' = Errorf("failed to clone repository " \o testRepoURL, LibErr(cause))
    /\ pc' = "cloneReturned"
    /\ UNCHANGED <<test, tempDir, deferred, repoInfo, err, steps, loc, failed, lastCleanup>>
    /\ UNCHANGED otherVars

----------------------------------------------------------------------------
(* internal/git: AnalyzeLatestCommit *)

\* the mutant of AnalyzeFail: the partly filled record is returned with the error
AnalyzeFailKeepsInfo(step, msg, cause) ==
    /\ repoInfo' = [URL |-> <<>>, TempPath |-> path, LatestCommit |-> [nil |-> TRUE],
                    ChangedFiles |-> <<>>, TotalLinesAdded |-> 0, TotalLinesDeleted |-> 0]
    /\ err' = Errorf(msg, LibErr(cause))
    /\ steps' = Append(steps, step)
    /\ pc' = "analyzeReturned"

\* a failing return: (nil, fmt.Errorf(msg + ": %w", cause))
AnalyzeFail(step, msg, cause) ==
    /\ repoInfo' = NilInfo
    /\ err' = Errorf(msg, LibErr(cause))
    /\ steps' = Append(steps, step)
    /\ pc' = "analyzeReturned"

\* git.PlainOpen(repoPath)
AnalyzeOpen ==
    /\ pc = "open"
    /\ \/ /\ pc' = "head"
          /\ steps' = Append(steps, "open")
          /\ UNCHANGED <<repoInfo, err>>
       \/ AnalyzeFail("open", "failed to open repository at path", "repository does not exist")
    /\ UNCHANGED <<test, fs, tempDir, path, cloneErr, deferred, loc, failed, lastCleanup>>
    /\ UNCHANGED otherVars

\* repo.Head()
AnalyzeHead ==
    /\ pc = "head"
    /\ \/ /\ pc' = "commit"
          /\ steps' = Append(steps, "head")
          /\ UNCHANGED <<repoInfo, err>>
       \/ AnalyzeFail("head", "failed to get HEAD reference", "reference not found")
    /\ UNCHANGED <<test, fs, tempDir, path, cloneErr, deferred, loc, failed, lastCleanup>>
    /\ UNCHANGED otherVars

\* repo.CommitObject(headRef.Hash())
AnalyzeCommitObject ==
    /\ pc = "commit"
    /\ \/ \E c \in Commits :
             /\ loc' = [loc EXCEPT !.commit = c]
             /\ pc' = "stats"
             /\ steps' = Append(steps, "commit")
             /\ UNCHANGED <<repoInfo, err>>
       \/ /\ AnalyzeFail("commit", "failed to get latest commit object", "object not found")
          /\ UNCHANGED loc
    /\ UNCHANGED <<test, fs, tempDir, path, cloneErr, deferred, failed, lastCleanup>>
    /\ UNCHANGED otherVars

RECURSIVE SumAdditions(_)
SumAdditions(stats) ==
    IF stats = <<>> THEN 0 ELSE stats[1].Addition + SumAdditions(Tail(stats))

RECURSIVE SumDeletions(_)
SumDeletions(stats) ==
    IF stats = <<>> THEN 0 ELSE stats[1].Deletion + SumDeletions(Tail(stats))

\* totalAdded and totalDeleted after the commit-statistics sub-step
StatsTotals(ok, stats) ==
    IF ok THEN <<SumAdditions(stats), SumDeletions(stats)>> ELSE <<0, 0>>

\* the mutant of AnalyzeStats: a failure of Stats() is returned to the caller
AnalyzeStatsHardFail ==
    /\ pc = "stats"
    /\ \/ \E stats \in FileStatsSeqs :
             /\ loc' = [loc EXCEPT !.statsOK = TRUE, !.commitStats = stats,
                                   !.totalAdded = StatsTotals(TRUE, stats)[1],
                                   !.totalDeleted = StatsTotals(TRUE, stats)[2]]
             /\ pc' = "tree"
             /\ steps' = Append(steps, "stats")
             /\ UNCHANGED <<repoInfo, err>>
       \/ /\ AnalyzeFail("stats", "failed to get commit stats", "object not found")
          /\ UNCHANGED loc
    /\ UNCHANGED <<test, fs, tempDir, path, cloneErr, deferred, failed, lastCleanup>>
    /\ UNCHANGED otherVars

\* latestCommit.Stats(): an error leaves the totals at zero and is dropped
AnalyzeStats ==
    /\ pc = "stats"
    /\ \E ok \in BOOLEAN, stats \in FileStatsSeqs :
          /\ ~ok => stats = <<>>
          /\ loc' = [loc EXCEPT !.statsOK = ok, !.commitStats = stats,
                                !.totalAdded = StatsTotals(ok, stats)[1],
                                !.totalDeleted = StatsTotals(ok, stats)[2]]
    /\ pc' = "tree"
    /\ steps' = Append(steps, "stats")
    /\ UNCHANGED <<test, fs, tempDir, path, cloneErr, deferred, repoInfo, err, failed, lastCleanup>>
    /\ UNCHANGED otherVars

\* latestCommit.Tree(); commitStats is not read after the loop of lines 104-107
\* and is dropped from the locals here
AnalyzeTree ==
    /\ pc = "tree"
    /\ \/ \E t \in Trees :
             /\ loc' = [loc EXCEPT !.currentTree = t, !.commitStats = <<>>]
             /\ pc' = "diff"
             /\ steps' = Append(steps, "tree")
             /\ UNCHANGED <<repoInfo, err>>
       \/ /\ AnalyzeFail("tree", "failed to get commit tree", "object not found")
          /\ UNCHANGED loc
    /\ UNCHANGED <<test, fs, tempDir, path, cloneErr, deferred, failed, lastCleanup>>
    /\ UNCHANGED otherVars

\* numParents == 0: object.DiffTree(nil, currentTree) and changes.Patch()
AnalyzeDiffInitial ==
    /\ pc = "diff"
    /\ loc.commit.NumParents = 0
    /\ \/ /\ loc' = [loc EXCEPT !.branch = "initial", !.patch = EmptyTreePatch(loc.currentTree)]
          /\ pc' = "collect"
          /\ steps' = Append(steps, "diff")
          /\ UNCHANGED <<repoInfo, err>>
       \/ /\ AnalyzeFail("diff", "failed to diff initial commit tree", "object not found")
          /\ UNCHANGED loc
       \/ /\ AnalyzeFail("diff", "failed to get patch from changes (initial commit)", "object not found")
          /\ UNCHANGED loc
    /\ UNCHANGED <<test, fs, tempDir, path, cloneErr, deferred, failed, lastCleanup>>
    /\ UNCHANGED otherVars

\* the mutant of AnalyzeDiffFallback: a parent that cannot be loaded ends the analysis
AnalyzeDiffFallbackFails ==
    /\ pc = "diff"
    /\ loc.commit.NumParents > 0
    /\ loc' = [loc EXCEPT !.errParent = LibErr("object not found")]
    /\ AnalyzeFail("diff", "failed to get parent commit", "object not found")
    /\ UNCHANGED <<test, fs, tempDir, path, cloneErr, deferred, failed, lastCleanup>>
    /\ UNCHANGED otherVars

\* numParents > 0 and latestCommit.Parent(0) fails: the empty-tree diff again
AnalyzeDiffFallback ==
    /\ pc = "diff"
    /\ loc.commit.NumParents > 0
    /\ \/ /\ loc' = [loc EXCEPT !.branch = "fallback", !.patch = EmptyTreePatch(loc.currentTree),
                                !.errParent = LibErr("object not found")]
          /\ pc' = "collect"
          /\ steps' = Append(steps, "diff")
          /\ UNCHANGED <<repoInfo, err>>
       \/ /\ AnalyzeFail("diff", "failed to diff current tree with empty (parent fetch failed: object not found)", "object not found")
          /\ loc' = [loc EXCEPT !.errParent = LibErr("object not found")]
       \/ /\ AnalyzeFail("diff", "failed to get patch from changes (fallback to empty tree)", "object not found")
          /\ loc' = [loc EXCEPT !.errParent = LibErr("object not found")]
    /\ UNCHANGED <<test, fs, tempDir, path, cloneErr, deferred, failed, lastCleanup>>
    /\ UNCHANGED otherVars

\* numParents > 0 and the parent loads: parentCommit.Tree() and parentTree.Patch(currentTree)
AnalyzeDiffParent ==
    /\ pc = "diff"
    /\ loc.commit.NumParents > 0
    /\ \/ \E parentTree \in Trees :
             /\ loc' = [loc EXCEPT !.branch = "parent", !.patch = TreePatch(parentTree, loc.currentTree),
                                   !.base = parentTree]
             /\ pc' = "collect"
             /\ steps' = Append(steps, "diff")
             /\ UNCHANGED <<repoInfo, err>>
       \/ /\ AnalyzeFail("diff", "failed to get parent commit tree", "object not found")
          /\ UNCHANGED loc
       \/ /\ AnalyzeFail("diff", "failed to create patch between parent and current tree", "object not found")
          /\ UNCHANGED loc
    /\ UNCHANGED <<test, fs, tempDir, path, cloneErr, deferred, failed, lastCleanup>>
    /\ UNCHANGED otherVars

\* the mutant of FilePath: the pre-change path is preferred
FilePathPreferFrom(filePatch) ==
    IF filePatch.from # NoFile THEN filePatch.from.path
    ELSE IF filePatch.to # NoFile THEN filePatch.to.path
    ELSE <<>>

\* the path of one file patch: the post-change path, else the pre-change path
FilePath(filePatch) ==
    IF filePatch.to # NoFile THEN filePatch.to.path
    ELSE IF filePatch.from # NoFile THEN filePatch.from.path
    ELSE <<>>

\* the mutant of FileStatsOf: the commit-level totals are copied into the entry
FileStatsOfWithTotals(filePath, added, deleted) ==
    [Path |-> filePath, FileType |-> ToLower(Ext(filePath)), LinesAdded |-> added, LinesDeleted |-> deleted]

\* the ChangedFileStats record appended for filePath
FileStatsOf(filePath, added, deleted) ==
    [Path |-> filePath, FileType |-> ToLower(Ext(filePath)), LinesAdded |-> 0, LinesDeleted |-> 0]

RECURSIVE ChangedFileStatsList(_, _, _)
ChangedFileStatsList(filePatches, added, deleted) ==
    IF filePatches = <<>> THEN <<>>
    ELSE LET filePath == FilePath(Head(filePatches))
             rest == ChangedFileStatsList(Tail(filePatches), added, deleted)
         IN  IF filePath = <<>> THEN rest
             ELSE <<FileStatsOf(filePath, added, deleted)>> \o rest

\* the loop over patch.FilePatches() and the successful return
AnalyzeCollect ==
    /\ pc = "collect"
    /\ repoInfo' = [URL |-> <<>>,
                    TempPath |-> path,
                    LatestCommit |-> [Hash |-> loc.commit.Hash,
                                      Message |-> FirstLine(loc.commit.Message),
                                      Author |-> loc.commit.Author,
                                      Email |-> loc.commit.Email,
                                      Date |-> TimeString(loc.commit.When)],
                    ChangedFiles |-> ChangedFileStatsList(loc.patch, loc.totalAdded, loc.totalDeleted),
                    TotalLinesAdded |-> loc.totalAdded,
                    TotalLinesDeleted |-> loc.totalDeleted]
    /\ err' = NilErr
    /\ steps' = Append(steps, "collect")
    /\ pc' = "analyzeReturned"
    /\ UNCHANGED <<test, fs, tempDir, path, cloneErr, deferred, loc, failed, lastCleanup>>
    /\ UNCHANGED otherVars

----------------------------------------------------------------------------
(* internal/git: Cleanup, and the test functions that are the analysis runs *)

\* Cleanup(repoPath): os.RemoveAll(repoPath), its result dropped
Cleanup(f, repoPath) == RemoveAll(f, repoPath)

\* the latest two Cleanup arguments
Remember(calls, p) == IF calls = <<>> THEN <<p>> ELSE <<calls[Len(calls)], p>>

\* `if os.Getenv("CI") != "" { t.Skip(...) }`
TestSkip ==
    /\ pc = "start"
    /\ pc' = "exit"
    /\ UNCHANGED <<test, fs, tempDir, path, cloneErr, deferred, repoInfo, err, steps, loc, failed, lastCleanup>>
    /\ UNCHANGED otherVars

\* `if err != nil { t.Fatalf(...) }; defer Cleanup(path)`
TestAfterClone ==
    /\ pc = "cloneReturned"
    /\ IF cloneErr # NilErr
       THEN /\ failed' = TRUE
            /\ pc' = "exit"
            /\ UNCHANGED deferred
       ELSE /\ deferred' = <<path>>
            /\ pc' = IF test = "TestCloneRepository" THEN "statChecks" ELSE "open"
            /\ UNCHANGED failed
    /\ UNCHANGED <<test, fs, tempDir, path, cloneErr, repoInfo, err, steps, loc, lastCleanup>>
    /\ UNCHANGED otherVars

\* TestCloneRepository: the os.Stat checks of the clone
TestCloneChecks ==
    /\ pc = "statChecks"
    /\ failed' = (path \o <<"LICENSE">> \notin fs \/ path \notin fs)
    /\ pc' = "exit"
    /\ UNCHANGED <<test, fs, tempDir, path, cloneErr, deferred, repoInfo, err, steps, loc, lastCleanup>>
    /\ UNCHANGED otherVars

\* TestAnalyzeLatestCommit: what the assertions on the returned record report
AssertionsFail(info) ==
    \/ info.LatestCommit.Hash = <<>>
    \/ info.LatestCommit.Author = <<>>
    \/ \E i \in 1..Len(info.ChangedFiles) :
          LET cf == info.ChangedFiles[i]
          IN  \/ /\ cf.FileType # Ext(cf.Path)
                 /\ ~(cf.Path \in {LICENSE} /\ cf.FileType = <<>>)
              \/ cf.LinesAdded # 0
              \/ cf.LinesDeleted # 0
    \/ Len(info.ChangedFiles) = 0
    \/ \E sef \in {LICENSE, GITIGNORE} :
          ~\E i \in 1..Len(info.ChangedFiles) : info.ChangedFiles[i].Path = sef

\* the mutant of TestAfterAnalyze: a failed analysis ends the run at once,
\* without the deferred calls
TestAfterAnalyzeExits ==
    /\ pc = "analyzeReturned"
    /\ IF err # NilErr \/ repoInfo = NilInfo
       THEN failed' = TRUE /\ pc' = "done"
       ELSE failed' = AssertionsFail(repoInfo) /\ pc' = "exit"
    /\ UNCHANGED <<test, fs, tempDir, path, cloneErr, deferred, repoInfo, err, steps, loc, lastCleanup>>
    /\ UNCHANGED otherVars

\* TestAnalyzeLatestCommit after the call: t.Fatalf on an error or a nil
\* record, else the assertions; either way the function ends
TestAfterAnalyze ==
    /\ pc = "analyzeReturned"
    /\ failed' = IF err # NilErr \/ repoInfo = NilInfo THEN TRUE ELSE AssertionsFail(repoInfo)
    /\ pc' = "exit"
    /\ UNCHANGED <<test, fs, tempDir, path, cloneErr, deferred, repoInfo, err, steps, loc, lastCleanup>>
    /\ UNCHANGED otherVars

\* the end of the test function (return, t.Fatalf or t.Skip): the deferred
\* Cleanup(path) runs
RunDeferred ==
    /\ pc = "exit"
    /\ IF deferred = <<>>
       THEN UNCHANGED <<fs, lastCleanup>>
       ELSE /\ fs' = Cleanup(fs, deferred[1])
            /\ lastCleanup' = Remember(lastCleanup, deferred[1])
    /\ deferred' = <<>>
    /\ pc' = "done"
    /\ UNCHANGED <<test, tempDir, path, cloneErr, repoInfo, err, steps, loc, failed>>
    /\ UNCHANGED otherVars

\* a directory another run owns when this run starts
LeftOver(d) == {<<d>>} \cup {<<d, e>> : e \in CloneEntries}

Init ==
    /\ test \in {"TestCloneRepository", "TestAnalyzeLatestCommit"}
    /\ pc = "start"
    /\ fs \in {{}, LeftOver(1)}
    /\ tempDir = <<>>
    /\ path = <<>>
    /\ cloneErr = NilErr
    /\ deferred = <<>>
    /\ repoInfo = NilInfo
    /\ err = NilErr
    /\ steps = <<>>
    /\ loc = NoLocals
    /\ failed = FALSE
    /\ lastCleanup = <<>>
    /\ data = [nil |-> TRUE]
    /\ outFile = [nil |-> TRUE]
    /\ genErr = NilErr
    /\ badgeArgs = <<0, 0>>
    /\ badgeURL = <<>>
    /\ osArgs = <<>>
    /\ outFilePath = <<>>
    /\ repoURL = <<>>
    /\ exitCode = -1
    /\ stdout = <<>>

Next ==
    \/ TestSkip
    \/ CloneMkdirTemp
    \/ ClonePlainClone
    \/ TestAfterClone
    \/ TestCloneChecks
    \/ AnalyzeOpen
    \/ AnalyzeHead
    \/ AnalyzeCommitObject
    \/ AnalyzeStats
    \/ AnalyzeTree
    \/ AnalyzeDiffInitial
    \/ AnalyzeDiffFallback
    \/ AnalyzeDiffParent
    \/ AnalyzeCollect
    \/ TestAfterAnalyze
    \/ RunDeferred

Spec == Init /\ [][Next]_vars

----------------------------------------------------------------------------
(* TestCleanup, and Cleanup called on any path any number of times *)

\* os.MkdirTemp("", "zenwatch-testcleanup-*")
CleanupMkdirTemp ==
    /\ \E d \in DirNames :
          /\ <<d>> \notin fs
          /\ fs' = fs \cup {<<d>>}
    /\ lastCleanup' = <<>>
    /\ UNCHANGED <<test, pc, tempDir, path, cloneErr, deferred, repoInfo, err, steps, loc, failed>>
    /\ UNCHANGED otherVars

\* os.Create(filepath.Join(dummyPath, "dummy.txt"))
CleanupCreateFile ==
    /\ \E d \in DirNames :
          /\ <<d>> \in fs
          /\ <<d, "dummy.txt">> \notin fs
          /\ fs' = fs \cup {<<d, "dummy.txt">>}
    /\ lastCleanup' = <<>>
    /\ UNCHANGED <<test, pc, tempDir, path, cloneErr, deferred, repoInfo, err, steps, loc, failed>>
    /\ UNCHANGED otherVars

\* Cleanup(p)
CleanupCall(p) ==
    /\ fs' = Cleanup(fs, p)
    /\ lastCleanup' = Remember(lastCleanup, p)
    /\ UNCHANGED <<test, pc, tempDir, path, cloneErr, deferred, repoInfo, err, steps, loc, failed>>
    /\ UNCHANGED otherVars

CleanupAny == \E p \in AllPaths \cup {<<>>} : CleanupCall(p)

InitCleanup ==
    /\ test = "TestCleanup"
    /\ pc = "start"
    /\ fs \in {f \in SUBSET AllPaths : WellFormedFS(f)}
    /\ tempDir = <<>>
    /\ path = <<>>
    /\ cloneErr = NilErr
    /\ deferred = <<>>
    /\ repoInfo = NilInfo
    /\ err = NilErr
    /\ steps = <<>>
    /\ loc = NoLocals
    /\ failed = FALSE
    /\ lastCleanup = <<>>
    /\ data = [nil |-> TRUE]
    /\ outFile = [nil |-> TRUE]
    /\ genErr = NilErr
    /\ badgeArgs = <<0, 0>>
    /\ badgeURL = <<>>
    /\ osArgs = <<>>
    /\ outFilePath = <<>>
    /\ repoURL = <<>>
    /\ exitCode = -1
    /\ stdout = <<>>

NextCleanup ==
    \/ CleanupMkdirTemp
    \/ CleanupCreateFile
    \/ CleanupAny

SpecCleanup == InitCleanup /\ [][NextCleanup]_vars

----------------------------------------------------------------------------
(* Properties of internal/git *)

UnderTempDir(f) == {q \in f : tempDir # <<>> /\ IsPrefix(tempDir, q)}

LastStep == IF steps = <<>> THEN "" ELSE steps[Len(steps)]

AnalyzeOrder == <<"open", "head", "commit", "stats", "tree", "diff", "collect">>

\* C1: when CloneRepository has returned, a non-nil error comes with the empty
\* path and with nothing left at or below the temporary directory it created,
\* and a nil error comes with the non-empty path of an existing directory.
C1_CloneFailureLeavesNothing ==
    pc = "cloneReturned" =>
        /\ cloneErr # NilErr => path = <<>> /\ UnderTempDir(fs) = {}
        /\ cloneErr = NilErr => path # <<>> /\ Len(path) = 1 /\ path \in fs

\* the clone step failed after the temporary directory had been created
C1_Witness ==
    /\ pc = "cloneReturned"
    /\ cloneErr # NilErr
    /\ tempDir # <<>>
    /\ cloneErr[1] = "failed to clone repository " \o testRepoURL

\* C2: when a run has ended, by a return or by t.Fatalf, the directory that
\* CloneRepository returned to it and everything below it no longer exist.
C2_RunRemovesCloneDirectory ==
    pc = "done" => UnderTempDir(fs) = {} /\ \A q \in fs : path = <<>> \/ ~IsPrefix(path, q)

\* a run whose analysis failed has ended and had a clone directory
C2_Witness ==
    /\ pc = "done"
    /\ test = "TestAnalyzeLatestCommit"
    /\ path # <<>>
    /\ err # NilErr
    /\ lastCleanup = <<path>>

\* C4: the commit-statistics step is always followed by the tree step and never
\* by a return; after it the totals are the sums over the returned file stats
\* when Stats() succeeded and 0 and 0 when it failed, and a successful analysis
\* returns those totals.
C4_StatsSoftFail ==
    /\ LastStep = "stats" =>
          /\ pc = "tree" /\ err = NilErr
          /\ loc.statsOK => /\ loc.totalAdded = SumAdditions(loc.commitStats)
                            /\ loc.totalDeleted = SumDeletions(loc.commitStats)
    /\ (Len(steps) >= 4 /\ ~loc.statsOK) => loc.totalAdded = 0 /\ loc.totalDeleted = 0
    /\ repoInfo # NilInfo =>
          /\ repoInfo.TotalLinesAdded = loc.totalAdded
          /\ repoInfo.TotalLinesDeleted = loc.totalDeleted

\* the statistics call failed and the analysis went on to a successful return
C4_Witness ==
    /\ pc = "analyzeReturned"
    /\ ~loc.statsOK
    /\ repoInfo # NilInfo
    /\ Len(repoInfo.ChangedFiles) > 0
    /\ repoInfo.TotalLinesAdded = 0

\* the message AnalyzeLatestCommit wraps a failure of each step in
FailureMessages(step) ==
    CASE step = "open" -> {"failed to open repository at path"}
      [] step = "head" -> {"failed to get HEAD reference"}
      [] step = "commit" -> {"failed to get latest commit object"}
      [] step = "tree" -> {"failed to get commit tree"}
      [] step = "diff" -> {"failed to diff initial commit tree",
                           "failed to get patch from changes (initial commit)",
                           "failed to diff current tree with empty (parent fetch failed: object not found)",
                           "failed to get patch from changes (fallback to empty tree)",
                           "failed to get parent commit tree",
                           "failed to create patch between parent and current tree"}
      [] OTHER -> {}

\* C5: the library calls are made in the order open, head, commit, statistics,
\* tree, diff, each at most once; a returned error is non-nil exactly when the
\* returned record is nil, it belongs to the last call made, which is the
\* open, head, commit, tree or diff call, and it wraps the library's cause.
C5_FailureOrder ==
    /\ IsPrefix(steps, AnalyzeOrder)
    /\ pc = "analyzeReturned" => (repoInfo # NilInfo <=> err = NilErr)
    /\ err # NilErr =>
          /\ repoInfo = NilInfo
          /\ Len(err) = 2
          /\ err[1] \in FailureMessages(LastStep)
          /\ err[2] \in {"repository does not exist", "reference not found", "object not found"}

\* the commit could not be loaded: the third check failed after two succeeded
C5_Witness ==
    /\ pc = "analyzeReturned"
    /\ steps = <<"open", "head", "commit">>
    /\ err = <<"failed to get latest commit object", "object not found">>
    /\ repoInfo = NilInfo

\* C6: every ChangedFileStats entry of a returned record has LinesAdded = 0 and
\* LinesDeleted = 0.
C6_PerFileCountsZero ==
    repoInfo # NilInfo =>
        \A i \in 1..Len(repoInfo.ChangedFiles) :
            repoInfo.ChangedFiles[i].LinesAdded = 0 /\ repoInfo.ChangedFiles[i].LinesDeleted = 0

\* a record with entries from the parent diff and non-zero commit totals
C6_Witness ==
    /\ repoInfo # NilInfo
    /\ loc.branch = "parent"
    /\ Len(repoInfo.ChangedFiles) > 1
    /\ repoInfo.TotalLinesAdded > 0
    /\ repoInfo.TotalLinesDeleted > 0

\* C3: a Cleanup(p) call leaves nothing at or below p and removes nothing else;
\* it changes nothing when it repeats the previous call or when nothing existed
\* at or below p; it reports no error and marks no failure.
C3_CleanupIdempotent ==
    [][CleanupAny =>
         LET p == lastCleanup'[Len(lastCleanup')]
         IN  /\ \A q \in fs' : p = <<>> \/ ~IsPrefix(p, q)
             /\ fs' \subseteq fs
             /\ \A q \in fs \ fs' : IsPrefix(p, q)
             /\ (lastCleanup # <<>> /\ lastCleanup[Len(lastCleanup)] = p) => fs' = fs
             /\ (\A q \in fs : ~IsPrefix(p, q)) => fs' = fs
             /\ err' = err /\ cloneErr' = cloneErr /\ failed' = failed]_vars

\* Cleanup has been called twice in a row on a directory that had a file in it
C3_Witness ==
    /\ Len(lastCleanup) = 2
    /\ lastCleanup[1] = lastCleanup[2]
    /\ Len(lastCleanup[1]) = 1
    /\ lastCleanup[1] \notin fs

----------------------------------------------------------------------------
(* internal/report: the template and html/template's rendering of it *)

NoOutput == [nil |-> TRUE]

RECURSIVE Flat(_)
Flat(ss) == IF ss = <<>> THEN <<>> ELSE Head(ss) \o Flat(Tail(ss))

Digit(d) ==
    CASE d = 0 -> "0" [] d = 1 -> "1" [] d = 2 -> "2" [] d = 3 -> "3" [] d = 4 -> "4"
      [] d = 5 -> "5" [] d = 6 -> "6" [] d = 7 -> "7" [] d = 8 -> "8" [] OTHER -> "9"

RECURSIVE ItoaNat(_)
ItoaNat(n) == IF n < 10 THEN <<Digit(n)>> ELSE ItoaNat(n \div 10) \o <<Digit(n % 10)>>

\* an int printed by the template (fmt's %v of an int)
Itoa(n) == IF n < 0 THEN <<"-">> \o ItoaNat(0 - n) ELSE ItoaNat(n)

\* printf "%.2f" of the float64 q/4 (q >= 0): quarters are exact in binary and
\* in two decimals
Format2f(q) ==
    ItoaNat(q \div 4) \o <<".">> \o <<Digit(((q % 4) * 25) \div 10), Digit(((q % 4) * 25) % 10)>>

\* html/template's htmlReplacementTable, applied to every value printed in
\* HTML text context
HTMLEscapeChar(c) ==
    CASE c = "&" -> <<"&", "a", "m", "p", ";">>
      [] c = "<" -> <<"&", "l", "t", ";">>
      [] c = ">" -> <<"&", "g", "t", ";">>
      [] c = "\"" -> <<"&", "#", "3", "4", ";">>
      [] c = "'" -> <<"&", "#", "3", "9", ";">>
      [] c = "+" -> <<"&", "#", "4", "3", ";">>
      [] OTHER -> <<c>>

HTMLEscape(str) == Flat([i \in 1..Len(str) |-> HTMLEscapeChar(str[i])])

\* html/template's escapeText on the template's own text: a "<" that starts no
\* tag is written as "&lt;".  Template text is a sequence of pieces, a "<"
\* being a piece of its own.
TemplateText(pieces) ==
    Flat([i \in 1..Len(pieces) |-> IF pieces[i] = "<" THEN <<"&", "l", "t", ";">> ELSE <<pieces[i]>>])

BadgeOpen == "![ZenWatch Stats]("
NoFunctionsOpen == "No functions found with cyclomatic complexity greater than "
TableTitle == "### Functions Over Complexity Threshold"
TableHeader == "| Complexity | Function                               | File:Line        | Package        |"
TableRule == "|------------|----------------------------------------|------------------|----------------|"

\* lines 15-23 of the template: header and `{{if .BadgeURL}}`
HeaderLines(d) ==
    << <<>>,
       TemplateText(<<"# ZenWatch Analysis Report">>),
       <<>>,
       TemplateText(<<"**Repository:** ">>) \o HTMLEscape(d.RepoURL),
       TemplateText(<<"**Analyzed At:** ">>) \o HTMLEscape(d.ReportDate),
       <<>> >>
    \o (IF d.BadgeURL # <<>>
        THEN << <<>>, TemplateText(<<BadgeOpen>>) \o HTMLEscape(d.BadgeURL) \o TemplateText(<<")">>), <<>> >>
        ELSE << <<>> >>)
    \o << <<>> >>

\* lines 24-29: the commit block
CommitLines(c) ==
    << TemplateText(<<"## Latest Commit Analyzed">>),
       TemplateText(<<"- **Hash:** ">>) \o HTMLEscape(c.Hash),
       TemplateText(<<"- **Author:** ">>) \o HTMLEscape(c.Author) \o TemplateText(<<" ", "<">>)
           \o HTMLEscape(c.Email) \o TemplateText(<<">">>),
       TemplateText(<<"- **Date:** ">>) \o HTMLEscape(c.Date),
       TemplateText(<<"- **Message:** ">>) \o HTMLEscape(c.Message),
       <<>> >>

CharCode(c) ==
    CASE c = "." -> 46 [] c = "d" -> 100 [] c = "g" -> 103 [] c = "m" -> 109 [] c = "o" -> 111 [] OTHER -> 0

RECURSIVE StringLess(_, _)
StringLess(a, b) ==
    IF b = <<>> THEN FALSE
    ELSE IF a = <<>> THEN TRUE
    ELSE IF CharCode(Head(a)) # CharCode(Head(b)) THEN CharCode(Head(a)) < CharCode(Head(b))
    ELSE StringLess(Tail(a), Tail(b))

\* the keys of a map in the order `range` visits them: sorted
RECURSIVE SortedKeys(_)
SortedKeys(keys) ==
    IF keys = {} THEN <<>>
    ELSE LET least == CHOOSE k \in keys : \A other \in keys \ {k} : StringLess(k, other)
         IN  <<least>> \o SortedKeys(keys \ {least})

\* lines 30-41: totals and the file-type table
StatsLines(st) ==
    << TemplateText(<<"## Code Statistics">>),
       TemplateText(<<"- **Total Lines Added:** ">>) \o Itoa(st.TotalLinesAdded),
       TemplateText(<<"- **Total Lines Deleted:** ">>) \o Itoa(st.TotalLinesDeleted),
       TemplateText(<<"  *Note: Line counts are overall for the commit. Per-file line counts were not available with current git analysis settings.*">>),
       <<>>,
       TemplateText(<<"### File Type Distribution">>),
       TemplateText(<<"| Extension | Count |">>),
       TemplateText(<<"|-----------|-------|">>) >>
    \o (LET keys == SortedKeys(DOMAIN st.FileStats)
        IN  [i \in 1..Len(keys) |->
                TemplateText(<<"| ">>) \o HTMLEscape(keys[i]) \o TemplateText(<<" | ">>)
                    \o Itoa(st.FileStats[keys[i]].Count) \o TemplateText(<<" |">>)])
    \o << <<>>, <<>> >>

\* line 51: one row of the complexity table
ComplexityRow(cs) ==
    TemplateText(<<"| ">>) \o Itoa(cs.Complexity) \o TemplateText(<<" | ">>) \o HTMLEscape(cs.FunctionName)
        \o TemplateText(<<"                     | ">>) \o HTMLEscape(cs.File) \o TemplateText(<<":">>)
        \o Itoa(cs.Line) \o TemplateText(<<" | ">>) \o HTMLEscape(cs.Package) \o TemplateText(<<"    |">>)

\* the mutant of ComplexityBody: the table is chosen by the list, not by the count
ComplexityBodyByList(st, threshold) ==
    IF Len(st.ComplexityStats) > 0
    THEN << TemplateText(<<TableTitle>>), TemplateText(<<TableHeader>>), TemplateText(<<TableRule>>) >>
         \o [i \in 1..Len(st.ComplexityStats) |-> ComplexityRow(st.ComplexityStats[i])]
         \o << <<>> >>
    ELSE << TemplateText(<<NoFunctionsOpen>>) \o Itoa(threshold) \o TemplateText(<<".">>) >>

\* lines 46-55: `{{if gt .Stats.FunctionsOverThreshold 0 -}}` ... `{{else -}}` ... `{{end}}`
ComplexityBody(st, threshold) ==
    IF st.FunctionsOverThreshold > 0
    THEN << TemplateText(<<TableTitle>>), TemplateText(<<TableHeader>>), TemplateText(<<TableRule>>) >>
         \o [i \in 1..Len(st.ComplexityStats) |-> ComplexityRow(st.ComplexityStats[i])]
         \o << <<>> >>
    ELSE << TemplateText(<<NoFunctionsOpen>>) \o Itoa(threshold) \o TemplateText(<<".">>) >>

\* lines 42-55: the complexity section
ComplexityLines(st, threshold) ==
    << TemplateText(<<"## Cyclomatic Complexity Analysis (Threshold > ">>) \o Itoa(threshold) \o TemplateText(<<")">>),
       TemplateText(<<"- **Average Complexity (of functions over threshold):** ">>) \o Format2f(st.AverageComplexity),
       TemplateText(<<"- **Functions Over Threshold:** ">>) \o Itoa(st.FunctionsOverThreshold),
       <<>> >>
    \o ComplexityBody(st, threshold)
    \o << <<>> >>

\* tmpl.Execute(file, data): what is written to the file, and the error.
\* Output is written as the template is walked, so a nil Commit or nil Stats
\* leaves the text up to the failing field.
Execute(d) ==
    IF d.Commit = [nil |-> TRUE]
    THEN [lines |-> HeaderLines(d) \o << TemplateText(<<"## Latest Commit Analyzed">>), TemplateText(<<"- **Hash:** ">>) >>,
          err |-> LibErr("nil pointer evaluating *git.CommitInfo.Hash")]
    ELSE IF d.Stats = [nil |-> TRUE]
    THEN [lines |-> HeaderLines(d) \o CommitLines(d.Commit)
                    \o << TemplateText(<<"## Code Statistics">>), TemplateText(<<"- **Total Lines Added:** ">>) >>,
          err |-> LibErr("nil pointer evaluating *metrics.OverallStats.TotalLinesAdded")]
    ELSE [lines |-> HeaderLines(d) \o CommitLines(d.Commit) \o StatsLines(d.Stats)
                    \o ComplexityLines(d.Stats, d.ComplexityThreshold),
          err |-> NilErr]

\* the ReportData values the renderer is given
BadgeURLs == {<<>>, <<"h", ":", "/", "b", "%", "2", "0">>, <<"h", ":", "/", "b", "?", "a", "&", "c">>}

CommitInfos ==
    [Hash : {<<"a", "1", "b", "2">>},
     Author : {<<"J", " ", "V">>, <<"J", "&", "V">>},
     Email : {<<"j", "@", "e", ".", "c">>, <<"j", "+", "t", "@", "e", ".", "c">>},
     Date : {<<"W", "e", "d">>},
     Message : {<<"f", "e", "a", "t">>, <<"a", " ", "<", " ", "b">>}]

ComplexityStatValues ==
    {[Complexity |-> 20, Package |-> <<"m">>, FunctionName |-> <<"f">>, File |-> <<"m", ".", "g", "o">>, Line |-> 42],
     [Complexity |-> 16, Package |-> <<"h">>, FunctionName |-> <<"g">>, File |-> <<"c", "+", "+", "/", "h">>, Line |-> 101]}

FileStatsMaps ==
    {<<>>,
     [k \in {<<".", "m", "d">>, <<".", "g", "o">>} |->
        IF k = <<".", "g", "o">> THEN [Extension |-> k, Count |-> 5] ELSE [Extension |-> k, Count |-> 2]]}

OverallStatsValues ==
    [TotalLinesAdded : {150},
     TotalLinesDeleted : {0, 30},
     FunctionsOverThreshold : 0..MaxCount,
     AverageComplexity : {0, 72},
     FileStats : FileStatsMaps,
     ComplexityStats : SeqsUpTo(ComplexityStatValues, MaxStats)]

ReportDatas ==
    [RepoURL : {<<"h", ":", "/", "r">>},
     ReportDate : {<<"2", "0", "2", "5">>},
     BadgeURL : BadgeURLs,
     Commit : CommitInfos \cup {[nil |-> TRUE]},
     Stats : OverallStatsValues \cup {[nil |-> TRUE]},
     ComplexityThreshold : {0, 15}]

\* GenerateMarkdownReport(data, outputPath)
GenerateMarkdownReport ==
    /\ pc = "report"
    /\ \E d \in ReportDatas :
          /\ data' = d
          /\ \/ /\ genErr' = Errorf("failed to create output directory", LibErr("permission denied"))
                /\ UNCHANGED <<outFile, stdout>>
             \/ /\ genErr' = Errorf("failed to create report file", LibErr("permission denied"))
                /\ UNCHANGED <<outFile, stdout>>
             \/ LET r == Execute(d)
                IN  /\ outFile' = [lines |-> r.lines]
                    /\ IF r.err # NilErr
                       THEN genErr' = Errorf("failed to execute template", r.err) /\ UNCHANGED stdout
                       ELSE genErr' = NilErr /\ stdout' = <<"Markdown report generated at outputPath">>
    /\ pc' = "reported"
    /\ UNCHANGED <<test, fs, tempDir, path, cloneErr, deferred, repoInfo, err, steps, loc, failed, lastCleanup>>
    /\ UNCHANGED <<badgeArgs, badgeURL>>
    /\ UNCHANGED cliVars

InitReport ==
    /\ test = "main_test_report"
    /\ pc = "report"
    /\ fs = {}
    /\ tempDir = <<>>
    /\ path = <<>>
    /\ cloneErr = NilErr
    /\ deferred = <<>>
    /\ repoInfo = NilInfo
    /\ err = NilErr
    /\ steps = <<>>
    /\ loc = NoLocals
    /\ failed = FALSE
    /\ lastCleanup = <<>>
    /\ data = [nil |-> TRUE]
    /\ outFile = NoOutput
    /\ genErr = NilErr
    /\ badgeArgs = <<0, 0>>
    /\ badgeURL = <<>>
    /\ osArgs = <<>>
    /\ outFilePath = <<>>
    /\ repoURL = <<>>
    /\ exitCode = -1
    /\ stdout = <<>>

NextReport == GenerateMarkdownReport

SpecReport == InitReport /\ [][NextReport]_vars

----------------------------------------------------------------------------
(* Properties of internal/report *)

\* the least index >= from at which sub occurs in line, 0 if there is none
RECURSIVE FindFrom(_, _, _)
FindFrom(line, sub, from) ==
    IF from + Len(sub) - 1 > Len(line) THEN 0
    ELSE IF SubSeq(line, from, from + Len(sub) - 1) = sub THEN from
    ELSE FindFrom(line, sub, from + 1)

Contains(line, sub) == FindFrom(line, sub, 1) # 0

\* the parts occur in the line one after the other, without overlap
RECURSIVE ShowsInOrder(_, _, _)
ShowsInOrder(line, parts, from) ==
    IF parts = <<>> THEN TRUE
    ELSE LET at == FindFrom(line, Head(parts), from)
         IN  at # 0 /\ ShowsInOrder(line, Tail(parts), at + Len(Head(parts)))

FileLines == IF outFile = NoOutput THEN <<>> ELSE outFile.lines

Rendered == pc = "reported" /\ outFile # NoOutput /\ genErr = NilErr

BadgeLineNumbers == {i \in 1..Len(FileLines) : FileLines[i] # <<>> /\ FileLines[i][1] = BadgeOpen}

\* C7: the file has a badge image line exactly when BadgeURL is non-empty, and
\* that line contains the characters of BadgeURL unchanged.
C7_BadgeVerbatim ==
    (pc = "reported" /\ outFile # NoOutput) =>
        /\ BadgeLineNumbers # {} <=> data.BadgeURL # <<>>
        /\ \A i \in BadgeLineNumbers : Contains(FileLines[i], data.BadgeURL)

\* C8: the file has the Author line `- **Author:** author <email>` with a
\* literal "<" and ">", and the Hash, Date and Message lines carry their
\* values unchanged.
C8_AuthorLine ==
    Rendered =>
        /\ \E i \in 1..Len(FileLines) :
              FileLines[i] = <<"- **Author:** ">> \o data.Commit.Author \o <<" ", "<">> \o data.Commit.Email \o <<">">>
        /\ \E i \in 1..Len(FileLines) : FileLines[i] = <<"- **Hash:** ">> \o data.Commit.Hash
        /\ \E i \in 1..Len(FileLines) : FileLines[i] = <<"- **Date:** ">> \o data.Commit.Date
        /\ \E i \in 1..Len(FileLines) : FileLines[i] = <<"- **Message:** ">> \o data.Commit.Message

\* the lines of the file after the three lines that open the complexity section
ComplexityTail ==
    LET start == CHOOSE i \in 1..Len(FileLines) :
                    FileLines[i] # <<>> /\ FileLines[i][1] = "## Cyclomatic Complexity Analysis (Threshold > "
    IN  SubSeq(FileLines, start + 4, Len(FileLines))

NoFunctionsSentence == <<NoFunctionsOpen>> \o Itoa(data.ComplexityThreshold) \o <<".">>

----------------------------------------------------------------------------
(* cmd/zenwatch: main and the flag package's parsing of `analyze` arguments *)

ANALYZE == <<"a", "n", "a", "l", "y", "z", "e">>
OTHERCMD == <<"v", "e", "r", "s", "i", "o", "n">>
URLARG == <<"h", ":", "/", "r">>
FILEARG == <<"p", ".", "m", "d">>
OUTLONG == <<"-", "-", "o", "u", "t">>
OUTSHORT == <<"-", "o", "u", "t">>
OUTEQ == <<"-", "-", "o", "u", "t", "=", "p", ".", "m", "d">>

\* the default of the "out" flag
DefaultOut == <<"r", "e", "p", "o", "r", "t", "s", "/", "l", "a", "t", "e", "s", "t", ".", "m", "d">>

ArgTokens == {URLARG, FILEARG, OUTLONG, OUTSHORT, OUTEQ, <<"-", "-">>, <<"-", "h">>, <<"-", "-", "x">>, <<"-">>}

\* the index of the first "=" of name after its first character, 0 if none
RECURSIVE EqualsAt(_, _)
EqualsAt(name, i) ==
    IF i > Len(name) THEN 0 ELSE IF name[i] = "=" THEN i ELSE EqualsAt(name, i + 1)

\* FlagSet.Parse: parseOne repeated until a non-flag argument, "--", the end
\* of the arguments or an error; `out` is the value of the "out" flag so far
RECURSIVE ParseFlags(_, _)
ParseFlags(args, out) ==
    IF args = <<>> THEN [rest |-> <<>>, out |-> out, status |-> "ok"]
    ELSE LET s == Head(args) IN
    IF Len(s) < 2 \/ s[1] # "-" THEN [rest |-> args, out |-> out, status |-> "ok"]
    ELSE LET numMinuses == IF s[2] = "-" THEN 2 ELSE 1 IN
    IF numMinuses = 2 /\ Len(s) = 2 THEN [rest |-> Tail(args), out |-> out, status |-> "ok"]
    ELSE LET full == SubSeq(s, numMinuses + 1, Len(s)) IN
    IF Len(full) = 0 \/ full[1] = "-" \/ full[1] = "="
    THEN [rest |-> args, out |-> out, status |-> "bad flag syntax"]
    ELSE LET eq == EqualsAt(full, 2)
             name == IF eq = 0 THEN full ELSE SubSeq(full, 1, eq - 1)
             given == Tail(args)
         IN
    IF name # <<"o", "u", "t">>
    THEN [rest |-> given, out |-> out,
          status |-> IF name \in {<<"h">>, <<"h", "e", "l", "p">>} THEN "help" ELSE "flag provided but not defined"]
    ELSE IF eq # 0 THEN ParseFlags(given, SubSeq(full, eq + 1, Len(full)))
    ELSE IF Len(given) > 0 THEN ParseFlags(Tail(given), Head(given))
    ELSE [rest |-> given, out |-> out, status |-> "flag needs an argument"]

\* `len(os.Args) < 2`
MainNoSubcommand ==
    /\ pc = "main"
    /\ osArgs = <<>>
    /\ stdout' = <<"Expected 'analyze' subcommand">>
    /\ exitCode' = 1
    /\ pc' = "exited"
    /\ UNCHANGED <<outFilePath, repoURL>>
    /\ UNCHANGED <<gitVars_noPc, reportVars, osArgs>>

\* `default:` of the switch on os.Args[1]
MainUnknownSubcommand ==
    /\ pc = "main"
    /\ osArgs # <<>>
    /\ Head(osArgs) # ANALYZE
    /\ stdout' = <<"Expected 'analyze' subcommand">>
    /\ exitCode' = 1
    /\ pc' = "exited"
    /\ UNCHANGED <<outFilePath, repoURL>>
    /\ UNCHANGED <<gitVars_noPc, reportVars, osArgs>>

\* `case "analyze":` analyzeCmd.Parse(os.Args[2:]) with flag.ExitOnError, the
\* check of NArg, and the two lines printed
MainAnalyze ==
    /\ pc = "main"
    /\ osArgs # <<>>
    /\ Head(osArgs) = ANALYZE
    /\ LET r == ParseFlags(Tail(osArgs), DefaultOut)
       IN  /\ outFilePath' = r.out
           /\ IF r.status = "help"
              THEN exitCode' = 0 /\ stdout' = <<"Usage of analyze:">> /\ UNCHANGED repoURL
              ELSE IF r.status # "ok"
              THEN exitCode' = 2 /\ stdout' = <<r.status, "Usage of analyze:">> /\ UNCHANGED repoURL
              ELSE IF Len(r.rest) < 1
              THEN /\ exitCode' = 1
                   /\ stdout' = <<"Usage: zenwatch analyze <repo-url> --out <output-file>", "Usage of analyze:">>
                   /\ UNCHANGED repoURL
              ELSE /\ repoURL' = r.rest[1]
                   /\ stdout' = <<"Repository URL: ", r.rest[1], "Output File: ", r.out>>
                   /\ exitCode' = 0
    /\ pc' = "exited"
    /\ UNCHANGED <<gitVars_noPc, reportVars, osArgs>>

InitCLI ==
    /\ test = "zenwatch"
    /\ pc = "main"
    /\ fs = {}
    /\ tempDir = <<>>
    /\ path = <<>>
    /\ cloneErr = NilErr
    /\ deferred = <<>>
    /\ repoInfo = NilInfo
    /\ err = NilErr
    /\ steps = <<>>
    /\ loc = NoLocals
    /\ failed = FALSE
    /\ lastCleanup = <<>>
    /\ data = [nil |-> TRUE]
    /\ outFile = NoOutput
    /\ genErr = NilErr
    /\ badgeArgs = <<0, 0>>
    /\ badgeURL = <<>>
    /\ osArgs \in {<<>>} \cup {<<cmd>> \o rest : cmd \in {ANALYZE, OTHERCMD}, rest \in SeqsUpTo(ArgTokens, MaxArgs)}
    /\ outFilePath = DefaultOut
    /\ repoURL = <<>>
    /\ exitCode = -1
    /\ stdout = <<>>

NextCLI ==
    \/ MainNoSubcommand
    \/ MainUnknownSubcommand
    \/ MainAnalyze

SpecCLI == InitCLI /\ [][NextCLI]_vars

\* C10: the documented invocations `analyze <url> --out <path>` and
\* `analyze --out <path> <url>` both end with <path> as the destination, and
\* `analyze <url>` ends with the default reports/latest.md.
C10_OutOptionSetsDestination ==
    pc = "exited" =>
        /\ osArgs \in {<<ANALYZE, URLARG, OUTLONG, FILEARG>>, <<ANALYZE, OUTLONG, FILEARG, URLARG>>} =>
              exitCode = 0 /\ repoURL = URLARG /\ outFilePath = FILEARG
        /\ osArgs = <<ANALYZE, URLARG>> =>
              exitCode = 0 /\ repoURL = URLARG /\ outFilePath = DefaultOut

----------------------------------------------------------------------------
(* internal/report: GenerateBadgeURL *)

\* printf "%.1f" of the float64 q/4 (q >= 0): the exact value rounded to the
\* nearest tenth, a tie going to the even digit
Format1f(q) ==
    LET floor == (q * 10) \div 4
        rem == (q * 10) % 4
        tenths == IF rem > 2 \/ (rem = 2 /\ floor % 2 = 1) THEN floor + 1 ELSE floor
    IN  ItoaNat(tenths \div 10) \o <<".", Digit(tenths % 10)>>

\* strings.Replace(str, old, new, 1): the first occurrence only (the mutant of ReplaceAll)
RECURSIVE ReplaceFirst(_, _, _)
ReplaceFirst(str, old, new) ==
    IF str = <<>> THEN <<>>
    ELSE IF Head(str) = old THEN new \o Tail(str)
    ELSE <<Head(str)>> \o ReplaceFirst(Tail(str), old, new)

\* strings.ReplaceAll(str, old, new) for a one-character old
RECURSIVE ReplaceAll(_, _, _)
ReplaceAll(str, old, new) ==
    IF str = <<>> THEN <<>>
    ELSE (IF Head(str) = old THEN new ELSE <<Head(str)>>) \o ReplaceAll(Tail(str), old, new)

\* fmt.Sprintf("changes %d | avg complx %.1f", totalChangedLines, avgComplexity)
BadgeMessage(totalChangedLines, avgComplexity) ==
    <<"c", "h", "a", "n", "g", "e", "s", " ">> \o Itoa(totalChangedLines)
        \o <<" ", "|", " ", "a", "v", "g", " ", "c", "o", "m", "p", "l", "x", " ">> \o Format1f(avgComplexity)

BadgePrefix == "https://img.shields.io/badge/"

\* GenerateBadgeURL(totalChangedLines, avgComplexity): label, message, color
\* are pieces of the URL; the message is a sequence of characters
BadgeURLOf(totalChangedLines, avgComplexity) ==
    LET message == BadgeMessage(totalChangedLines, avgComplexity)
        safeMessage == ReplaceAll(ReplaceAll(message, " ", <<"%", "2", "0">>), "|", <<"%", "7", "C">>)
    IN  <<BadgePrefix, "ZenWatch", "-">> \o safeMessage \o <<"-", "blue">>

\* the call of GenerateBadgeURL
GenerateBadgeURL ==
    /\ pc = "badge"
    /\ badgeURL' = BadgeURLOf(badgeArgs[1], badgeArgs[2])
    /\ pc' = "badged"
    /\ UNCHANGED <<gitVars_noPc, data, outFile, genErr, badgeArgs, cliVars, stdout>>

InitBadge ==
    /\ test = "main_test_report"
    /\ pc = "badge"
    /\ fs = {}
    /\ tempDir = <<>>
    /\ path = <<>>
    /\ cloneErr = NilErr
    /\ deferred = <<>>
    /\ repoInfo = NilInfo
    /\ err = NilErr
    /\ steps = <<>>
    /\ loc = NoLocals
    /\ failed = FALSE
    /\ lastCleanup = <<>>
    /\ data = [nil |-> TRUE]
    /\ outFile = NoOutput
    /\ genErr = NilErr
    /\ badgeArgs \in ((-1..MaxChanged) \cup {150}) \X ((0..MaxQuarters) \cup {72})
    /\ badgeURL = <<>>
    /\ osArgs = <<>>
    /\ outFilePath = <<>>
    /\ repoURL = <<>>
    /\ exitCode = -1
    /\ stdout = <<>>

NextBadge == GenerateBadgeURL

SpecBadge == InitBadge /\ [][NextBadge]_vars

\* the message segment of a badge URL: what lies between "ZenWatch-" and "-blue"
MessageSegment(url) == SubSeq(url, 4, Len(url) - 2)

\* the text a message segment stands for: %20 read as a space, %7C as a pipe
RECURSIVE Decoded(_)
Decoded(seg) ==
    IF seg = <<>> THEN <<>>
    ELSE IF Len(seg) >= 3 /\ SubSeq(seg, 1, 3) = <<"%", "2", "0">> THEN <<" ">> \o Decoded(SubSeq(seg, 4, Len(seg)))
    ELSE IF Len(seg) >= 3 /\ SubSeq(seg, 1, 3) = <<"%", "7", "C">> THEN <<"|">> \o Decoded(SubSeq(seg, 4, Len(seg)))
    ELSE <<Head(seg)>> \o Decoded(Tail(seg))

\* C11: GenerateBadgeURL returns https://img.shields.io/badge/ZenWatch-<message>-blue
\* with no space and no pipe in it; <message> has three characters for every
\* space or pipe of the text and one for every other, and stands for
\* `changes {total} | avg complx {average}`, the average being a tenth nearest
\* to the argument; for (150, 18.0) it is changes%20150%20%7C%20avg%20complx%2018.0.
C11_BadgeURL ==
    pc = "badged" =>
        LET seg == MessageSegment(badgeURL)
            text == Decoded(seg)
            special == {i \in 1..Len(text) : text[i] \in {" ", "|"}}
        IN  /\ SubSeq(badgeURL, 1, 3) = <<BadgePrefix, "ZenWatch", "-">>
            /\ SubSeq(badgeURL, Len(badgeURL) - 1, Len(badgeURL)) = <<"-", "blue">>
            /\ \A i \in 1..Len(badgeURL) : badgeURL[i] \notin {" ", "|"}
            /\ Len(seg) = Len(text) + 2 * Cardinality(special)
            /\ \E tenths \in 0..(3 * badgeArgs[2] + 1) :
                  /\ 4 * tenths - 10 * badgeArgs[2] \in -2..2
                  /\ text = <<"c", "h", "a", "n", "g", "e", "s", " ">>
                            \o (IF badgeArgs[1] < 0 THEN <<"-">> \o ItoaNat(0 - badgeArgs[1]) ELSE ItoaNat(badgeArgs[1]))
                            \o <<" ", "|", " ", "a", "v", "g", " ", "c", "o", "m", "p", "l", "x", " ">>
                            \o ItoaNat(tenths \div 10) \o <<".", Digit(tenths % 10)>>
            /\ badgeArgs = <<150, 72>> =>
                  seg = <<"c", "h", "a", "n", "g", "e", "s", "%", "2", "0", "1", "5", "0", "%", "2", "0",
                          "%", "7", "C", "%", "2", "0", "a", "v", "g", "%", "2", "0",
                          "c", "o", "m", "p", "l", "x", "%", "2", "0", "1", "8", ".", "0">>

\* GenerateBadgeURL(150, 18.0) has returned
C11_Witness ==
    /\ pc = "badged"
    /\ badgeArgs = <<150, 72>>
    /\ Len(badgeURL) = 46

----------------------------------------------------------------------------
(* Properties of the changed-file sub-step *)

EmptyTree == [nil |-> TRUE]

ChangedPaths == {repoInfo.ChangedFiles[i].Path : i \in 1..Len(repoInfo.ChangedFiles)}

\* C12: once the diff has been made, its base is the empty tree when the commit
\* has no parent or the parent could not be loaded, and the parent's tree only
\* when the parent loaded; a parent that cannot be loaded is never the failure
\* that is returned; with the empty tree as base the changed-file list has
\* every file of the commit's tree exactly once, and with the parent's tree as
\* base it has only paths that differ and all that the commit holds changed.
C12_ChangedFileSubStep ==
    /\ (Len(steps) >= 6 /\ err = NilErr) =>
          /\ loc.commit.NumParents = 0 => loc.base = EmptyTree /\ loc.errParent = NilErr
          /\ loc.errParent # NilErr => loc.base = EmptyTree /\ loc.commit.NumParents > 0
          /\ loc.base # EmptyTree => loc.commit.NumParents > 0 /\ loc.errParent = NilErr
    /\ (err # NilErr /\ LastStep = "diff" /\ loc.errParent # NilErr) =>
          err[1] \in {"failed to diff current tree with empty (parent fetch failed: object not found)",
                      "failed to get patch from changes (fallback to empty tree)"}
    /\ repoInfo # NilInfo =>
          IF loc.base = EmptyTree
          THEN /\ ChangedPaths = {p \in Paths : loc.currentTree[p] # 0}
               /\ Len(repoInfo.ChangedFiles) = Cardinality(ChangedPaths)
          ELSE /\ ChangedPaths \subseteq {p \in Paths : loc.base[p] # loc.currentTree[p]}
               /\ {p \in Paths : loc.currentTree[p] # 0 /\ loc.base[p] # loc.currentTree[p]} \subseteq ChangedPaths

\* a commit whose parent could not be loaded was analysed and returned all
\* three files of its tree
C12_Witness ==
    /\ repoInfo # NilInfo
    /\ loc.commit.NumParents > 0
    /\ loc.errParent # NilErr
    /\ Len(repoInfo.ChangedFiles) = 3

----------------------------------------------------------------------------
(* The collecting loop of AnalyzeLatestCommit on any patch the diff library can
   hand it: entries with either file missing or with an empty path included *)

AnyFiles == {NoFile, File(<<>>), File(LICENSE), File(EXAMPLE)}

AnyFilePatches == [from : AnyFiles, to : AnyFiles]

InitCollect ==
    /\ test = "TestAnalyzeLatestCommit"
    /\ pc = "collect"
    /\ fs = LeftOver(1)
    /\ tempDir = <<1>>
    /\ path = <<1>>
    /\ cloneErr = NilErr
    /\ deferred = << <<1>> >>
    /\ repoInfo = NilInfo
    /\ err = NilErr
    /\ steps = <<"open", "head", "commit", "stats", "tree", "diff">>
    /\ \E c \in Commits, filePatches \in SeqsUpTo(AnyFilePatches, MaxPatch) :
          loc = [NoLocals EXCEPT !.commit = c, !.currentTree = [p \in Paths |-> 0],
                                 !.branch = "parent", !.patch = filePatches, !.base = [p \in Paths |-> 0]]
    /\ failed = FALSE
    /\ lastCleanup = <<>>
    /\ data = [nil |-> TRUE]
    /\ outFile = NoOutput
    /\ genErr = NilErr
    /\ badgeArgs = <<0, 0>>
    /\ badgeURL = <<>>
    /\ osArgs = <<>>
    /\ outFilePath = <<>>
    /\ repoURL = <<>>
    /\ exitCode = -1
    /\ stdout = <<>>

NextCollect == AnalyzeCollect

SpecCollect == InitCollect /\ [][NextCollect]_vars

\* the path the claim gives the j-th entry of the patch
ClaimedPath(j) ==
    IF loc.patch[j].to # NoFile THEN loc.patch[j].to.path
    ELSE IF loc.patch[j].from # NoFile THEN loc.patch[j].from.path
    ELSE <<>>

KeptEntries == {j \in 1..Len(loc.patch) : ClaimedPath(j) # <<>>}

\* C13: every returned entry has a non-empty Path; the entries are, in patch
\* order, those patch entries whose path (post-change if there is a post-change
\* file, else pre-change if there is a pre-change file) is non-empty, one
\* record each, and the other patch entries give no record.
C13_NonEmptyPaths ==
    repoInfo # NilInfo =>
        /\ \A i \in 1..Len(repoInfo.ChangedFiles) : repoInfo.ChangedFiles[i].Path # <<>>
        /\ Len(repoInfo.ChangedFiles) = Cardinality(KeptEntries)
        /\ \A i \in 1..Len(repoInfo.ChangedFiles) :
              \E j \in KeptEntries :
                  /\ Cardinality({k \in KeptEntries : k < j}) = i - 1
                  /\ repoInfo.ChangedFiles[i].Path = ClaimedPath(j)

\* a patch with an entry that has no file at all and a deletion gave one record
C13_Witness ==
    /\ repoInfo # NilInfo
    /\ Len(loc.patch) = 2
    /\ loc.patch[1] = [from |-> NoFile, to |-> NoFile]
    /\ loc.patch[2] = [from |-> File(LICENSE), to |-> NoFile]
    /\ Len(repoInfo.ChangedFiles) = 1
    /\ repoInfo.ChangedFiles[1].Path = LICENSE

====
